---- MODULE Spec2Model ----
(***************************************************************************)
(* Model of rust/kernel/sync/revocable.rs: Revocable<T, B>, its private    *)
(* state Inner<T> and RevocableGuard.  Several cells are created            *)
(* independently; one of them is shared by all the threads.                 *)
(*                                                                         *)
(*   Spec      every thread calls revoke / try_write on the shared cell    *)
(*             and uses and drops the guards it gets;                      *)
(*   SpecCells the same, and the first thread also uses the other cells;   *)
(*   SpecLife  as Spec, and the owner drops the cell once it is unborrowed.*)
(*                                                                         *)
(* Every statement of revoke / try_write / Inner::drop_in_place is one     *)
(* step of the calling thread, so that every interleaving the lock allows  *)
(* is explored.  The destructor of T (assume_init_drop) takes two steps    *)
(* (it begins, it ends): in between the value is half-destroyed.           *)
(***************************************************************************)
EXTENDS Integers, FiniteSets, Sequences, TLC

\* ---------------------------------------------------------------- bounds
NumThreads == 2
NumCells   == 2
MaxVal     == 2
MaxDestroy == 2
MaxArg     == 32    \* the arguments of genmask range over 0..MaxArg

\* The width of u32.
BitWidth == 32

Threads == 1..NumThreads
Cells   == 1..NumCells
Values  == 1..MaxVal

\* The cell every thread has a reference to.
SharedCells == {1}

\* The cells thread t has a reference to under SpecCells.
CellsOf(t) == IF t = 1 THEN Cells ELSE SharedCells

VARIABLES
    is_available,   \* Inner::is_available, per cell
    data,           \* Inner::data (MaybeUninit<T>), per cell: [st, val];
                    \* val is 0 when the storage holds no value
    lockOwner,      \* per cell: the set of threads holding Revocable::inner
    guards,         \* per thread: the cells it holds a live RevocableGuard of
    pc,             \* per thread: position in the current call
    cur,            \* per thread: the cell of the current call, 0 outside a call
    seen,           \* per thread: <<c, v>> once it read v through its guard of c,
                    \* until it drops that guard or starts its next call
    torn,           \* per cell: the Revocable itself is being / has been dropped
    bits,           \* one call of bits::genmask: its arguments h and l, its
                    \* position, its result and whether a u32 operation overflowed
    \* history variables (observations only, never read by the program)
    acqAvail,       \* per thread: is_available when try_write got the lock
    afterRevoke,    \* per thread: its try_write started after a revoke returned
    revokeReturned, \* per cell: some revoke call has returned
    destroyCount,   \* per cell: how many times T's destructor ran
    pristine,       \* per cell: <<v>> while it holds the v passed to
                    \* Revocable::new, never written; << >> afterwards
    lastWritten     \* per cell: the value last stored into the cell by
                    \* Revocable::new or through a guard (0 once destroyed)

vars == << is_available, data, lockOwner, guards, pc, cur, seen, torn, bits,
           acqAvail, afterRevoke, revokeReturned, destroyCount, pristine,
           lastWritten >>

histVars == << acqAvail, afterRevoke, revokeReturned, destroyCount, pristine,
               lastWritten >>

\* ------------------------------------------------------------ Inner<T>
\* Inner::new: `data` is initialised and `is_available` is true.
InnerNewAvailable == TRUE

\* (faulty variant: MaybeUninit::uninit() instead of MaybeUninit::new(data))
InnerNewData_Uninit(v) == [st |-> "uninit", val |-> 0]

InnerNewData(v) == [st |-> "init", val |-> v]

\* --------------------------------------------------- the lock primitive
\* Lock::lock of the backend: blocks until no thread holds the lock.
LockFree(c) == lockOwner[c] = {}

LockAcquire(t, c) ==
    /\ LockFree(c)
    /\ lockOwner' = [lockOwner EXCEPT ![c] = @ \cup {t}]

\* Dropping the lock's Guard releases the lock.
LockRelease(t, c) ==
    lockOwner' = [lockOwner EXCEPT ![c] = @ \ {t}]

\* ------------------------------------------------------------ creation
\* No call of genmask is under way.
BitsOff == [h |-> 0, l |-> 0, at |-> "off", out |-> {}, ovf |-> FALSE]

\* Revocable::new for every cell, each with a caller-supplied value.
InitCells ==
    /\ pristine \in [Cells -> {<< v >> : v \in Values}]
    /\ lastWritten = [c \in Cells |-> pristine[c][1]]
    /\ is_available = [c \in Cells |-> InnerNewAvailable]
    /\ data = [c \in Cells |-> InnerNewData(pristine[c][1])]
    /\ lockOwner = [c \in Cells |-> {}]
    /\ guards = [t \in Threads |-> {}]
    /\ pc = [t \in Threads |-> "idle"]
    /\ cur = [t \in Threads |-> 0]
    /\ seen = [t \in Threads |-> << >>]
    /\ torn = [c \in Cells |-> FALSE]
    /\ acqAvail = [t \in Threads |-> FALSE]
    /\ afterRevoke = [t \in Threads |-> FALSE]
    /\ revokeReturned = [c \in Cells |-> FALSE]
    /\ destroyCount = [c \in Cells |-> 0]

Init ==
    /\ bits = BitsOff
    /\ InitCells

\* A cell can be used through &self only while the Revocable exists.
Borrowed(c) ==
    \E u \in Threads : c \in guards[u] \/ (pc[u] # "idle" /\ cur[u] = c)

\* -------------------------------------------------------------- revoke
\* A thread calls revoke(&self) on cell c.
RevokeCall(t, c) ==
    /\ pc[t] = "idle"
    /\ ~torn[c]
    /\ pc' = [pc EXCEPT ![t] = "rv_lock"]
    /\ cur' = [cur EXCEPT ![t] = c]
    /\ seen' = [seen EXCEPT ![t] = << >>]
    /\ UNCHANGED << is_available, data, lockOwner, guards, torn, bits >>
    /\ UNCHANGED histVars

\* (faulty variant: revoke works on the inner state without taking the lock)
RevokeLock_NoLock(t) ==
    /\ pc[t] = "rv_lock"
    /\ pc' = [pc EXCEPT ![t] = "dip_check"]
    /\ UNCHANGED << is_available, data, lockOwner, guards, cur, seen, torn, bits >>
    /\ UNCHANGED histVars

\* (faulty variant: revoke uses try_lock and gives up when the lock is held)
RevokeLock_TryLock(t) ==
    /\ pc[t] = "rv_lock"
    /\ IF LockFree(cur[t])
       THEN LockAcquire(t, cur[t]) /\ pc' = [pc EXCEPT ![t] = "dip_check"]
       ELSE lockOwner' = lockOwner /\ pc' = [pc EXCEPT ![t] = "dip_done"]
    /\ UNCHANGED << is_available, data, guards, cur, seen, torn, bits >>
    /\ UNCHANGED histVars

\* revoke: self.lock()
RevokeLock(t) ==
    /\ pc[t] = "rv_lock"
    /\ LockAcquire(t, cur[t])
    /\ pc' = [pc EXCEPT ![t] = "dip_check"]
    /\ UNCHANGED << is_available, data, guards, cur, seen, torn, bits >>
    /\ UNCHANGED histVars

\* (faulty variant: the early return on !is_available is missing)
DropInPlaceCheck_NoCheck(t) ==
    /\ pc[t] = "dip_check"
    /\ pc' = [pc EXCEPT ![t] = "dip_clear"]
    /\ UNCHANGED << is_available, data, lockOwner, guards, cur, seen, torn, bits >>
    /\ UNCHANGED histVars

\* (faulty variant: the test is inverted, `if self.is_available { return; }`)
DropInPlaceCheck_Inverted(t) ==
    /\ pc[t] = "dip_check"
    /\ pc' = [pc EXCEPT ![t] = IF is_available[cur[t]] THEN "dip_done"
                                                       ELSE "dip_clear"]
    /\ UNCHANGED << is_available, data, lockOwner, guards, cur, seen, torn, bits >>
    /\ UNCHANGED histVars

\* drop_in_place: if !self.is_available { return; }
DropInPlaceCheck(t) ==
    /\ pc[t] = "dip_check"
    /\ pc' = [pc EXCEPT ![t] = IF ~is_available[cur[t]] THEN "dip_done"
                                                        ELSE "dip_clear"]
    /\ UNCHANGED << is_available, data, lockOwner, guards, cur, seen, torn, bits >>
    /\ UNCHANGED histVars

\* (faulty variant: the assignment `self.is_available = false` is missing)
DropInPlaceClear_NoClear(t) ==
    /\ pc[t] = "dip_clear"
    /\ pc' = [pc EXCEPT ![t] = "dip_drop"]
    /\ UNCHANGED << is_available, data, lockOwner, guards, cur, seen, torn, bits >>
    /\ UNCHANGED histVars

\* (faulty variant: the flag is one static shared by every cell)
DropInPlaceClear_AllCells(t) ==
    /\ pc[t] = "dip_clear"
    /\ is_available' = [c \in Cells |-> FALSE]
    /\ pc' = [pc EXCEPT ![t] = "dip_drop"]
    /\ UNCHANGED << data, lockOwner, guards, cur, seen, torn, bits >>
    /\ UNCHANGED histVars

\* drop_in_place: self.is_available = false;
DropInPlaceClear(t) ==
    /\ pc[t] = "dip_clear"
    /\ is_available' = [is_available EXCEPT ![cur[t]] = FALSE]
    /\ pc' = [pc EXCEPT ![t] = "dip_drop"]
    /\ UNCHANGED << data, lockOwner, guards, cur, seen, torn, bits >>
    /\ UNCHANGED histVars

\* (faulty variant: the lock is given up before the destructor runs)
DropInPlaceDropBegin_Unlocked(t) ==
    /\ pc[t] = "dip_drop"
    /\ destroyCount[cur[t]] < MaxDestroy
    /\ data' = [data EXCEPT ![cur[t]].st = "dropping"]
    /\ destroyCount' = [destroyCount EXCEPT ![cur[t]] = @ + 1]
    /\ lockOwner' = [lockOwner EXCEPT ![cur[t]] = @ \ {t}]
    /\ pc' = [pc EXCEPT ![t] = "dip_dropping"]
    /\ UNCHANGED << is_available, guards, cur, seen, torn, bits >>
    /\ UNCHANGED << acqAvail, afterRevoke, revokeReturned, pristine, lastWritten >>

\* drop_in_place: self.data.assume_init_drop() -- T's destructor starts
DropInPlaceDropBegin(t) ==
    /\ pc[t] = "dip_drop"
    /\ destroyCount[cur[t]] < MaxDestroy
    /\ data' = [data EXCEPT ![cur[t]].st = "dropping"]
    /\ destroyCount' = [destroyCount EXCEPT ![cur[t]] = @ + 1]
    /\ pc' = [pc EXCEPT ![t] = "dip_dropping"]
    /\ UNCHANGED << is_available, lockOwner, guards, cur, seen, torn, bits >>
    /\ UNCHANGED << acqAvail, afterRevoke, revokeReturned, pristine, lastWritten >>

\* drop_in_place: self.data.assume_init_drop() -- T's destructor ends
DropInPlaceDropEnd(t) ==
    /\ pc[t] = "dip_dropping"
    /\ data' = [data EXCEPT ![cur[t]] = [st |-> "uninit", val |-> 0]]
    /\ pristine' = [pristine EXCEPT ![cur[t]] = << >>]
    /\ lastWritten' = [lastWritten EXCEPT ![cur[t]] = 0]
    /\ pc' = [pc EXCEPT ![t] = "dip_done"]
    /\ UNCHANGED << is_available, lockOwner, guards, cur, seen, torn, bits >>
    /\ UNCHANGED << acqAvail, afterRevoke, revokeReturned, destroyCount >>

\* (faulty variant: the temporary Guard is leaked, revoke returns with the
\* lock still held)
RevokeUnlock_Leak(t) ==
    /\ pc[t] = "dip_done"
    /\ ~torn[cur[t]]
    /\ pc' = [pc EXCEPT ![t] = "idle"]
    /\ cur' = [cur EXCEPT ![t] = 0]
    /\ revokeReturned' = [revokeReturned EXCEPT ![cur[t]] = TRUE]
    /\ UNCHANGED << is_available, data, lockOwner, guards, seen, torn, bits >>
    /\ UNCHANGED << acqAvail, afterRevoke, destroyCount, pristine, lastWritten >>

\* revoke: the temporary Guard of self.lock() is dropped, revoke returns.
RevokeUnlock(t) ==
    /\ pc[t] = "dip_done"
    /\ ~torn[cur[t]]
    /\ LockRelease(t, cur[t])
    /\ pc' = [pc EXCEPT ![t] = "idle"]
    /\ cur' = [cur EXCEPT ![t] = 0]
    /\ revokeReturned' = [revokeReturned EXCEPT ![cur[t]] = TRUE]
    /\ UNCHANGED << is_available, data, guards, seen, torn, bits >>
    /\ UNCHANGED << acqAvail, afterRevoke, destroyCount, pristine, lastWritten >>

\* ----------------------------------------------------------- try_write
\* A thread calls try_write(&self) on cell c.
TryWriteCall(t, c) ==
    /\ pc[t] = "idle"
    /\ ~torn[c]
    /\ pc' = [pc EXCEPT ![t] = "tw_lock"]
    /\ cur' = [cur EXCEPT ![t] = c]
    /\ acqAvail' = [acqAvail EXCEPT ![t] = FALSE]
    /\ afterRevoke' = [afterRevoke EXCEPT ![t] = revokeReturned[c]]
    /\ seen' = [seen EXCEPT ![t] = << >>]
    /\ UNCHANGED << is_available, data, lockOwner, guards, torn, bits >>
    /\ UNCHANGED << revokeReturned, destroyCount, pristine, lastWritten >>

\* (faulty variant: try_write takes the lock without waiting for it)
TryWriteLock_NoWait(t) ==
    /\ pc[t] = "tw_lock"
    /\ lockOwner' = [lockOwner EXCEPT ![cur[t]] = @ \cup {t}]
    /\ pc' = [pc EXCEPT ![t] = "tw_check"]
    /\ acqAvail' = [acqAvail EXCEPT ![t] = is_available[cur[t]]]
    /\ UNCHANGED << is_available, data, guards, cur, seen, torn, bits >>
    /\ UNCHANGED << afterRevoke, revokeReturned, destroyCount, pristine, lastWritten >>

\* try_write: let inner = self.lock();
TryWriteLock(t) ==
    /\ pc[t] = "tw_lock"
    /\ LockAcquire(t, cur[t])
    /\ pc' = [pc EXCEPT ![t] = "tw_check"]
    /\ acqAvail' = [acqAvail EXCEPT ![t] = is_available[cur[t]]]
    /\ UNCHANGED << is_available, data, guards, cur, seen, torn, bits >>
    /\ UNCHANGED << afterRevoke, revokeReturned, destroyCount, pristine, lastWritten >>

\* (faulty variant: the guard is built without testing is_available)
TryWriteCheck_NoFlagCheck(t) ==
    /\ pc[t] = "tw_check"
    /\ pc' = [pc EXCEPT ![t] = "idle"]
    /\ guards' = [guards EXCEPT ![t] = @ \cup {cur[t]}]
    /\ cur' = [cur EXCEPT ![t] = 0]
    /\ acqAvail' = [acqAvail EXCEPT ![t] = FALSE]
    /\ afterRevoke' = [afterRevoke EXCEPT ![t] = FALSE]
    /\ UNCHANGED << is_available, data, lockOwner, seen, torn, bits >>
    /\ UNCHANGED << revokeReturned, destroyCount, pristine, lastWritten >>

\* (faulty variant: the lock is released after the test, the returned guard
\* does not own the acquisition under which the flag was read)
TryWriteCheck_UnlockedGuard(t) ==
    /\ pc[t] = "tw_check"
    /\ IF ~is_available[cur[t]]
       THEN /\ pc' = [pc EXCEPT ![t] = "tw_none"]
            /\ UNCHANGED << guards, cur, acqAvail, afterRevoke, lockOwner >>
       ELSE /\ pc' = [pc EXCEPT ![t] = "idle"]
            /\ guards' = [guards EXCEPT ![t] = @ \cup {cur[t]}]
            /\ lockOwner' = [lockOwner EXCEPT ![cur[t]] = @ \ {t}]
            /\ cur' = [cur EXCEPT ![t] = 0]
            /\ acqAvail' = [acqAvail EXCEPT ![t] = FALSE]
            /\ afterRevoke' = [afterRevoke EXCEPT ![t] = FALSE]
    /\ UNCHANGED << is_available, data, seen, torn, bits >>
    /\ UNCHANGED << revokeReturned, destroyCount, pristine, lastWritten >>

\* try_write: if !inner.is_available { return None; }
\*            Some(RevocableGuard::new(inner))
TryWriteCheck(t) ==
    /\ pc[t] = "tw_check"
    /\ IF ~is_available[cur[t]]
       THEN /\ pc' = [pc EXCEPT ![t] = "tw_none"]
            /\ UNCHANGED << guards, cur, acqAvail, afterRevoke >>
       ELSE /\ pc' = [pc EXCEPT ![t] = "idle"]
            /\ guards' = [guards EXCEPT ![t] = @ \cup {cur[t]}]
            /\ cur' = [cur EXCEPT ![t] = 0]
            /\ acqAvail' = [acqAvail EXCEPT ![t] = FALSE]
            /\ afterRevoke' = [afterRevoke EXCEPT ![t] = FALSE]
    /\ UNCHANGED << is_available, data, lockOwner, seen, torn, bits >>
    /\ UNCHANGED << revokeReturned, destroyCount, pristine, lastWritten >>

\* (faulty variant: the lock guard is leaked on the None path)
TryWriteNone_NoUnlock(t) ==
    /\ pc[t] = "tw_none"
    /\ pc' = [pc EXCEPT ![t] = "idle"]
    /\ cur' = [cur EXCEPT ![t] = 0]
    /\ acqAvail' = [acqAvail EXCEPT ![t] = FALSE]
    /\ afterRevoke' = [afterRevoke EXCEPT ![t] = FALSE]
    /\ UNCHANGED << is_available, data, lockOwner, guards, seen, torn, bits >>
    /\ UNCHANGED << revokeReturned, destroyCount, pristine, lastWritten >>

\* try_write: `inner` goes out of scope on the None path, None is returned.
TryWriteNone(t) ==
    /\ pc[t] = "tw_none"
    /\ LockRelease(t, cur[t])
    /\ pc' = [pc EXCEPT ![t] = "idle"]
    /\ cur' = [cur EXCEPT ![t] = 0]
    /\ acqAvail' = [acqAvail EXCEPT ![t] = FALSE]
    /\ afterRevoke' = [afterRevoke EXCEPT ![t] = FALSE]
    /\ UNCHANGED << is_available, data, guards, seen, torn, bits >>
    /\ UNCHANGED << revokeReturned, destroyCount, pristine, lastWritten >>

\* ------------------------------------------------------ RevocableGuard
\* What a read of `data` yields: the value when initialised; reading
\* uninitialised or half-dropped storage is undefined, any value may appear.
ReadData(c) == IF data[c].st = "init" THEN {data[c].val} ELSE Values

\* Deref::deref: &*self.guard.data.as_ptr()
GuardDeref(t, c) ==
    /\ pc[t] = "idle"
    /\ c \in guards[t]
    /\ \E v \in ReadData(c) : seen' = [seen EXCEPT ![t] = << c, v >>]
    /\ UNCHANGED << is_available, data, lockOwner, guards, pc, cur, torn, bits >>
    /\ UNCHANGED histVars

\* (faulty variant: the mutable reference is to a copy of the value, the
\* write never reaches the cell)
GuardDerefMut_Copy(t, c, v) ==
    /\ pc[t] = "idle"
    /\ c \in guards[t]
    /\ pristine' = [pristine EXCEPT ![c] = << >>]
    /\ lastWritten' = [lastWritten EXCEPT ![c] = v]
    /\ UNCHANGED << is_available, data, lockOwner, guards, pc, cur, seen, torn, bits >>
    /\ UNCHANGED << acqAvail, afterRevoke, revokeReturned, destroyCount >>

\* DerefMut::deref_mut / as_pinned_mut: a write of v through the guard
GuardDerefMut(t, c, v) ==
    /\ pc[t] = "idle"
    /\ c \in guards[t]
    /\ data' = [data EXCEPT ![c].val = v]
    /\ pristine' = [pristine EXCEPT ![c] = << >>]
    /\ lastWritten' = [lastWritten EXCEPT ![c] = v]
    /\ UNCHANGED << is_available, lockOwner, guards, pc, cur, seen, torn, bits >>
    /\ UNCHANGED << acqAvail, afterRevoke, revokeReturned, destroyCount >>

\* (faulty variant: the inner lock guard is leaked when the RevocableGuard
\* goes away, the lock stays held)
GuardDrop_Leak(t, c) ==
    /\ pc[t] = "idle"
    /\ c \in guards[t]
    /\ guards' = [guards EXCEPT ![t] = @ \ {c}]
    /\ seen' = [seen EXCEPT ![t] = IF @ # << >> /\ @[1] = c THEN << >> ELSE @]
    /\ UNCHANGED << is_available, data, lockOwner, pc, cur, torn, bits >>
    /\ UNCHANGED histVars

\* The RevocableGuard goes out of scope: its field `guard` releases the lock.
GuardDrop(t, c) ==
    /\ pc[t] = "idle"
    /\ c \in guards[t]
    /\ guards' = [guards EXCEPT ![t] = @ \ {c}]
    /\ LockRelease(t, c)
    /\ seen' = [seen EXCEPT ![t] = IF @ # << >> /\ @[1] = c THEN << >> ELSE @]
    /\ UNCHANGED << is_available, data, pc, cur, torn, bits >>
    /\ UNCHANGED histVars

\* ------------------------------------------------------------ teardown
\* (faulty variant: Inner has no Drop impl; MaybeUninit never drops its
\* content, so teardown frees the storage without calling drop_in_place)
InnerDrop_Forget(t, c) ==
    /\ pc[t] = "idle"
    /\ ~torn[c]
    /\ ~Borrowed(c)
    /\ torn' = [torn EXCEPT ![c] = TRUE]
    /\ pc' = [pc EXCEPT ![t] = "dip_done"]
    /\ cur' = [cur EXCEPT ![t] = c]
    /\ UNCHANGED << is_available, data, lockOwner, guards, seen, bits >>
    /\ UNCHANGED histVars

\* The Revocable is dropped by its owner (no borrow of it is left):
\* Drop for Inner calls self.drop_in_place().
InnerDrop(t, c) ==
    /\ pc[t] = "idle"
    /\ ~torn[c]
    /\ ~Borrowed(c)
    /\ torn' = [torn EXCEPT ![c] = TRUE]
    /\ pc' = [pc EXCEPT ![t] = "dip_check"]
    /\ cur' = [cur EXCEPT ![t] = c]
    /\ UNCHANGED << is_available, data, lockOwner, guards, seen, bits >>
    /\ UNCHANGED histVars

\* Drop for Inner returns; the storage of the cell is freed.
InnerDropReturn(t) ==
    /\ pc[t] = "dip_done"
    /\ torn[cur[t]]
    /\ pc' = [pc EXCEPT ![t] = "idle"]
    /\ cur' = [cur EXCEPT ![t] = 0]
    /\ UNCHANGED << is_available, data, lockOwner, guards, seen, torn, bits >>
    /\ UNCHANGED histVars

\* ---------------------------------------------------------------- Next
Next ==
    \/ \E t \in Threads, c \in SharedCells : RevokeCall(t, c)
    \/ \E t \in Threads : RevokeLock(t)
    \/ \E t \in Threads : DropInPlaceCheck(t)
    \/ \E t \in Threads : DropInPlaceClear(t)
    \/ \E t \in Threads : DropInPlaceDropBegin(t)
    \/ \E t \in Threads : DropInPlaceDropEnd(t)
    \/ \E t \in Threads : RevokeUnlock(t)
    \/ \E t \in Threads, c \in SharedCells : TryWriteCall(t, c)
    \/ \E t \in Threads : TryWriteLock(t)
    \/ \E t \in Threads : TryWriteCheck(t)
    \/ \E t \in Threads : TryWriteNone(t)
    \/ \E t \in Threads, c \in Cells : GuardDeref(t, c)
    \/ \E t \in Threads, c \in Cells, v \in Values : GuardDerefMut(t, c, v)
    \/ \E t \in Threads, c \in Cells : GuardDrop(t, c)

Spec == Init /\ [][Next]_vars

\* The same, and the first thread calls revoke / try_write on the other
\* cells as well.
NextCells ==
    \/ Next
    \/ \E t \in Threads : \E c \in CellsOf(t) \ SharedCells : RevokeCall(t, c)
    \/ \E t \in Threads : \E c \in CellsOf(t) \ SharedCells : TryWriteCall(t, c)

SpecCells == Init /\ [][NextCells]_vars

\* Threads that never call into a cell of which they hold a guard.
RevokeCallFresh(t, c) == c \notin guards[t] /\ RevokeCall(t, c)

TryWriteCallFresh(t, c) == c \notin guards[t] /\ TryWriteCall(t, c)

NextFair ==
    \/ \E t \in Threads, c \in SharedCells : RevokeCallFresh(t, c)
    \/ \E t \in Threads : RevokeLock(t)
    \/ \E t \in Threads : DropInPlaceCheck(t)
    \/ \E t \in Threads : DropInPlaceClear(t)
    \/ \E t \in Threads : DropInPlaceDropBegin(t)
    \/ \E t \in Threads : DropInPlaceDropEnd(t)
    \/ \E t \in Threads : RevokeUnlock(t)
    \/ \E t \in Threads, c \in SharedCells : TryWriteCallFresh(t, c)
    \/ \E t \in Threads : TryWriteLock(t)
    \/ \E t \in Threads : TryWriteCheck(t)
    \/ \E t \in Threads : TryWriteNone(t)
    \/ \E t \in Threads, c \in Cells : GuardDeref(t, c)
    \/ \E t \in Threads, c \in Cells, v \in Values : GuardDerefMut(t, c, v)
    \/ \E t \in Threads, c \in Cells : GuardDrop(t, c)

\* A thread inside a call keeps running; a thread waiting for the lock gets
\* it if the lock is free again and again (a fair lock); a thread holding a
\* guard eventually drops it.  Nothing forces an idle thread to call.
Fairness ==
    \A t \in Threads :
        /\ WF_vars(DropInPlaceCheck(t))
        /\ WF_vars(DropInPlaceClear(t))
        /\ WF_vars(DropInPlaceDropBegin(t))
        /\ WF_vars(DropInPlaceDropEnd(t))
        /\ WF_vars(RevokeUnlock(t))
        /\ WF_vars(TryWriteCheck(t))
        /\ WF_vars(TryWriteNone(t))
        /\ SF_vars(RevokeLock(t))
        /\ SF_vars(TryWriteLock(t))
        /\ WF_vars(\E c \in Cells : GuardDrop(t, c))

SpecFair == Init /\ [][NextFair]_vars /\ Fairness

\* As Next, and the owner of the shared cell drops it when it is unborrowed.
NextLife ==
    \/ Next
    \/ \E t \in Threads, c \in SharedCells : InnerDrop(t, c)
    \/ \E t \in Threads : InnerDropReturn(t)

SpecLife == Init /\ [][NextLife]_vars

TypeOK ==
    /\ is_available \in [Cells -> BOOLEAN]
    /\ \A c \in Cells : data[c].st \in {"init", "dropping", "uninit"}
                        /\ data[c].val \in Values \cup {0}
    /\ lockOwner \in [Cells -> SUBSET Threads]
    /\ guards \in [Threads -> SUBSET Cells]
    /\ cur \in [Threads -> Cells \cup {0}]
    /\ destroyCount \in [Cells -> 0..MaxDestroy]

\* ------------------------------------------------------------- helpers
InDropInPlace(t) ==
    pc[t] \in {"dip_check", "dip_clear", "dip_drop", "dip_dropping", "dip_done"}

GuardAlive(c) == \E t \in Threads : c \in guards[t]

Live(c) == is_available[c] /\ data[c].st = "init"

\* ================================================================ C1
\* C1: no use-after-revoke.  In every reachable state, a cell of which some
\* thread holds a RevocableGuard is live: is_available is true and the value
\* is initialised (neither destroyed nor being destroyed), and no thread is
\* inside drop_in_place for that cell; so every dereference of a guard
\* reads initialised storage.
C1_NoUseAfterRevoke ==
    \A t \in Threads : \A c \in guards[t] :
        /\ Live(c)
        /\ \A u \in Threads : (InDropInPlace(u) => cur[u] # c)

\* A guard has been dereferenced after a write through it, while every
\* other thread is inside a call on the same cell.
C1_Witness ==
    \E t \in Threads, c \in Cells :
        /\ c \in guards[t]
        /\ pristine[c] = << >>
        /\ seen[t] = << c, data[c].val >>
        /\ \A u \in Threads \ {t} : pc[u] # "idle" /\ cur[u] = c

\* ================================================================ C2
\* C2: mutual exclusion between use and destroy.  While any thread holds a
\* RevocableGuard of a cell, no revoke of that cell is past its lock
\* acquisition (it has neither tested the flag, cleared it, started or
\* finished the destructor, nor returned), and the value is not being
\* destroyed; so a revoke called while a guard was alive destroys and
\* returns only after that guard was dropped.
C2_UseExcludesDestroy ==
    \A c \in Cells :
        GuardAlive(c) =>
            /\ data[c].st # "dropping"
            /\ \A u \in Threads :
                  (pc[u] # "idle" /\ cur[u] = c) => pc[u] \in {"rv_lock", "tw_lock"}

\* A revoke was called while another thread holds a guard of the cell: it
\* waits for the lock, the value is initialised and nothing was destroyed.
C2_Witness ==
    \E t \in Threads, u \in Threads, c \in Cells :
        /\ t # u
        /\ c \in guards[t]
        /\ pc[u] = "rv_lock" /\ cur[u] = c
        /\ destroyCount[c] = 0

\* ================================================================ C3
\* C3: access after revoke fails cleanly.  A try_write that was called after
\* some revoke of the same cell had returned never yields a guard: its test
\* of the flag leads to the None path and the caller's set of guards does
\* not grow in any step of the call.
C3_AccessAfterRevokeFails ==
    [][ \A t \in Threads :
          (pc[t] \in {"tw_lock", "tw_check", "tw_none"} /\ afterRevoke[t]) =>
              /\ guards'[t] \subseteq guards[t]
              /\ (pc[t] = "tw_check" => pc'[t] \in {"tw_check", "tw_none"}) ]_vars

\* A try_write called after a revoke returned is about to return None.
C3_Witness ==
    \E t \in Threads : pc[t] = "tw_none" /\ afterRevoke[t]

\* ================================================================ C4
\* C4: no double-destroy.  The destructor of the wrapped value runs at most
\* once per cell whatever the number of revoke calls; once a revoke has
\* returned it has run exactly once and is_available is false; and once it
\* has run, no later step (in particular no later revoke) runs it again or
\* sets is_available.
C4_NoDoubleDestroy ==
    /\ [](\A c \in Cells :
            /\ destroyCount[c] <= 1
            /\ (revokeReturned[c] => destroyCount[c] = 1 /\ ~is_available[c]))
    /\ [][ \A c \in Cells :
             destroyCount[c] >= 1 =>
                 /\ destroyCount'[c] = destroyCount[c]
                 /\ ~is_available'[c]
                 /\ (revokeReturned[c] => data'[c] = data[c]) ]_vars

\* A second revoke of a cell (one revoke has already returned) went through
\* drop_in_place as a no-op and is about to return.
C4_Witness ==
    \E t \in Threads :
        /\ pc[t] = "dip_done"
        /\ revokeReturned[cur[t]]
        /\ destroyCount[cur[t]] = 1

\* ================================================================ C5
\* C5: Inner invariant and atomicity of revoke.  is_available is true iff
\* data is initialised in every state in which the lock of the cell is free
\* (hence whenever a thread acquires it); the flag and the data disagree, or
\* the value is half-destroyed, only while exactly one thread holds the lock
\* inside drop_in_place between clearing the flag and finishing the
\* destructor.
C5_InnerInvariant ==
    \A c \in Cells :
        \/ /\ is_available[c] <=> data[c].st = "init"
           /\ data[c].st # "dropping"
        \/ \E t \in Threads :
              /\ lockOwner[c] = {t}
              /\ cur[t] = c
              /\ pc[t] \in {"dip_drop", "dip_dropping"}

\* The destructor is running and another thread is trying to acquire the
\* lock of the same cell.
C5_Witness ==
    \E t \in Threads, u \in Threads :
        /\ pc[t] = "dip_dropping"
        /\ pc[u] \in {"rv_lock", "tw_lock"}
        /\ cur[u] = cur[t]

C7_TryWriteResult ==
    /\ [](\A t \in Threads : \A c \in guards[t] : lockOwner[c] = {t})
    /\ [][ \A t \in Threads :
             (pc[t] = "tw_check" /\ pc'[t] # "tw_check") =>
                 /\ lockOwner[cur[t]] = {t}
                 /\ lockOwner'[cur[t]] = {t}
                 /\ (acqAvail[t] <=> (pc'[t] = "idle" /\ cur[t] \in guards'[t]))
                 /\ (~acqAvail[t] <=> (pc'[t] = "tw_none" /\ guards'[t] = guards[t]))
                 /\ (pc'[t] = "tw_none" <=> data[cur[t]].st = "uninit") ]_vars

\* A try_write has acquired the lock of a revoked cell and is on the None
\* path, while another try_write on that cell waits for the lock.
C7_Witness ==
    \E t \in Threads, u \in Threads :
        /\ pc[t] = "tw_none"
        /\ ~acqAvail[t]
        /\ pc[u] = "tw_lock" /\ cur[u] = cur[t]

\* ================================================================ C8
\* C8: creation and the basic lifecycle.  A cell created with v is Available
\* with its lock free and data initialised to v; a try_write on a cell that
\* still holds its creation value returns a guard, and reading through that
\* guard yields v; a try_write that tests the flag after a revoke of the
\* cell has returned takes the None path.
C8_CreateAndLifecycle ==
    /\ \A c \in Cells :
          /\ pristine[c] # << >>
          /\ is_available[c]
          /\ lockOwner[c] = {}
          /\ data[c] = [st |-> "init", val |-> pristine[c][1]]
    /\ [](\A t \in Threads :
            (seen[t] # << >> /\ pristine[seen[t][1]] # << >>) =>
                seen[t][2] = pristine[seen[t][1]][1])
    /\ [][ \A t \in Threads :
             (pc[t] = "tw_check" /\ pc'[t] # "tw_check") =>
                 /\ ((pristine[cur[t]] # << >> /\ data[cur[t]].st = "init")
                        => cur[t] \in guards'[t])
                 /\ (revokeReturned[cur[t]] => pc'[t] = "tw_none") ]_vars

\* A thread holds a guard of a cell that was never written and has read the
\* creation value through it.
C8_Witness ==
    \E t \in Threads :
        /\ seen[t] # << >>
        /\ seen[t][1] \in guards[t]
        /\ pristine[seen[t][1]] = << seen[t][2] >>

\* ================================================================ C9
\* The part of the state that belongs to cell c.
CellState(c) == << is_available[c], data[c], lockOwner[c], torn[c] >>

\* A step of thread t that is part of an operation on cell a.
StepOn(t, a) ==
    \/ RevokeCall(t, a)
    \/ TryWriteCall(t, a)
    \/ GuardDeref(t, a)
    \/ \E v \in Values : GuardDerefMut(t, a, v)
    \/ GuardDrop(t, a)
    \/ /\ cur[t] = a
       /\ \/ RevokeLock(t)
          \/ DropInPlaceCheck(t)
          \/ DropInPlaceClear(t)
          \/ DropInPlaceDropBegin(t)
          \/ DropInPlaceDropEnd(t)
          \/ RevokeUnlock(t)
          \/ TryWriteLock(t)
          \/ TryWriteCheck(t)
          \/ TryWriteNone(t)

\* C9: isolation between cells.  A step changes is_available, the data or
\* the lock of a cell b only if it is a step of an operation on b itself (a
\* step of an operation on another cell a leaves them unchanged); and
\* a cell is unavailable only if a revoke of that very cell has cleared its
\* flag (so revoking a never makes try_write on b return None).
C9_Isolation ==
    /\ [](\A b \in Cells :
            ~is_available[b] =>
                \/ revokeReturned[b]
                \/ \E t \in Threads : /\ cur[t] = b
                                      /\ pc[t] \in {"dip_drop", "dip_dropping", "dip_done"})
    /\ [][ \A b \in Cells :
             CellState(b)' # CellState(b) => \E t \in Threads : StepOn(t, b) ]_vars

\* One cell has been revoked while a guard of another cell, still holding
\* its creation value, is alive.
C9_Witness ==
    \E a \in Cells, b \in Cells, t \in Threads :
        /\ a # b
        /\ revokeReturned[a]
        /\ b \in guards[t]
        /\ pristine[b] # << >>

\* =============================================================== C10
\* A step of thread t inside try_write.
TryWriteStep(t) ==
    \/ \E c \in Cells : TryWriteCall(t, c)
    \/ TryWriteLock(t)
    \/ TryWriteCheck(t)
    \/ TryWriteNone(t)

\* C10: try_write is a non-mutating query.  No step of try_write changes
\* is_available or the data of any cell; the step that returns None leaves
\* the lock of the cell free, the flag false and the caller's guards as they
\* were.
C10_TryWriteNonMutating ==
    [][ \A t \in Threads :
          TryWriteStep(t) =>
              /\ is_available' = is_available
              /\ data' = data
              /\ (pc[t] = "tw_none" =>
                     /\ lockOwner'[cur[t]] = {}
                     /\ ~is_available'[cur[t]]
                     /\ guards' = guards) ]_vars

\* A try_write that was called before any revoke of the cell had returned
\* is on the None path.
C10_Witness ==
    \E t \in Threads : pc[t] = "tw_none" /\ ~afterRevoke[t]

\* =============================================================== C11
\* C11: guard release.  The step in which a thread's RevocableGuard of a
\* cell goes away, whatever the thread did with it before, turns the lock of
\* the cell from held by that thread to free and changes nothing else of
\* the cell: is_available was and stays true, the data (state and value) is
\* what it was, nothing is destroyed, and the thread returns from no call.
C11_GuardRelease ==
    [][ \A t \in Threads : \A c \in guards[t] :
          c \notin guards'[t] =>
              /\ lockOwner[c] = {t}
              /\ lockOwner'[c] = {}
              /\ is_available[c] /\ is_available'[c]
              /\ data[c].st = "init"
              /\ data'[c] = data[c]
              /\ destroyCount' = destroyCount
              /\ pc' = pc ]_vars

\* A guard was used for a write and dropped: the cell is available, holds
\* a written value, its lock is free and no guard of it is alive.
C11_Witness ==
    \E c \in Cells :
        /\ pristine[c] = << >>
        /\ Live(c)
        /\ lockOwner[c] = {}
        /\ ~GuardAlive(c)

\* =============================================================== C12
\* C12: progress.  With a fair lock, every guard eventually dropped and no
\* thread calling into a cell of which it holds a guard, every call returns:
\* a thread inside revoke or try_write is eventually outside the call; and
\* once a revoke has been called the cell is eventually Revoked and stays
\* so, also when the revoke first had to wait for a guard.
C12_Progress ==
    /\ \A t \in Threads : (pc[t] # "idle") ~> (pc[t] = "idle")
    /\ \A t \in Threads, c \in Cells :
          (pc[t] = "rv_lock" /\ cur[t] = c) ~> [](~is_available[c])

\* A revoke is blocked: it waits for the lock while another thread holds a
\* guard of the cell and has read through it.
C12_Witness ==
    \E t \in Threads, u \in Threads, c \in Cells :
        /\ t # u
        /\ c \in guards[t]
        /\ pc[u] = "rv_lock" /\ cur[u] = c
        /\ seen[t] # << >>

\* =============================================================== C13
\* The abstract atomic two-state cell, read off the state of the program.
\* A revoke takes effect when it acquires the lock, a try_write likewise.

\* A revoke of c has acquired the lock and will run the destructor.
RevokePending(c) ==
    \E t \in Threads :
        /\ t \in lockOwner[c]
        /\ cur[t] = c
        /\ \/ pc[t] \in {"dip_check", "dip_clear"} /\ is_available[c]
           \/ pc[t] = "dip_drop"

\* The abstract cell is Available: no revoke has taken effect.
AbsAvail(c) == is_available[c] /\ ~RevokePending(c)

\* The threads whose try_write took effect as Some and whose guard is not
\* dropped yet.
AbsHolder(c) ==
    {t \in Threads :
        \/ c \in guards[t]
        \/ pc[t] = "tw_check" /\ cur[t] = c /\ t \in lockOwner[c] /\ AbsAvail(c)}

\* The value of the abstract cell, 0 once revoked.
AbsVal(c) == IF AbsAvail(c) THEN data[c].val ELSE 0

\* The number of destructions of the abstract cell.
AbsDestroyed(c) == destroyCount[c] + (IF RevokePending(c) THEN 1 ELSE 0)

AbsState(c) == << AbsAvail(c), AbsHolder(c), AbsVal(c), AbsDestroyed(c) >>

\* The atomic operations of the abstract cell, each tied to the step of the
\* program at which it takes effect.
AbsTryWriteSome(t, c) ==
    /\ pc[t] = "tw_lock" /\ cur[t] = c /\ pc'[t] = "tw_check"
    /\ AbsAvail(c) /\ AbsHolder(c) = {}
    /\ AbsAvail(c)' /\ AbsHolder(c)' = {t}
    /\ AbsVal(c)' = AbsVal(c) /\ AbsDestroyed(c)' = AbsDestroyed(c)

AbsRevoke(t, c) ==
    /\ pc[t] = "rv_lock" /\ cur[t] = c /\ pc'[t] = "dip_check"
    /\ AbsAvail(c) /\ AbsHolder(c) = {}
    /\ ~AbsAvail(c)' /\ AbsHolder(c)' = {}
    /\ AbsVal(c)' = 0 /\ AbsDestroyed(c)' = AbsDestroyed(c) + 1

AbsWrite(t, c) ==
    /\ c \in guards[t] /\ pc[t] = "idle" /\ pc' = pc
    /\ AbsAvail(c) /\ AbsHolder(c) = {t}
    /\ AbsAvail(c)' /\ AbsHolder(c)' = {t}
    /\ AbsVal(c)' \in Values /\ AbsDestroyed(c)' = AbsDestroyed(c)

AbsRelease(t, c) ==
    /\ c \in guards[t] /\ c \notin guards'[t]
    /\ AbsAvail(c) /\ AbsHolder(c) = {t}
    /\ AbsAvail(c)' /\ AbsHolder(c)' = {}
    /\ AbsVal(c)' = AbsVal(c) /\ AbsDestroyed(c)' = AbsDestroyed(c)

\* C13: serialisation.  Every step of every interleaving of try_write, guard
\* use/drop and revoke either leaves the abstract cell unchanged or is one
\* atomic operation of it (try_write returning Some, an effective revoke, a
\* write through the guard, a release) taking effect at the caller's lock
\* acquisition; the abstract cell has at most one holder and is destroyed
\* exactly when it is Revoked, once; a try_write returns a guard only to the
\* abstract holder, returns None only when the abstract cell is Revoked, and
\* a read through a guard yields the abstract cell's value.
C13_Serialisation ==
    /\ [](\A c \in Cells :
            /\ Cardinality(AbsHolder(c)) <= 1
            /\ AbsDestroyed(c) = (IF AbsAvail(c) THEN 0 ELSE 1))
    /\ [][ \A c \in Cells :
             /\ \/ AbsState(c)' = AbsState(c)
                \/ \E t \in Threads :
                      \/ AbsTryWriteSome(t, c)
                      \/ AbsRevoke(t, c)
                      \/ AbsWrite(t, c)
                      \/ AbsRelease(t, c)
             /\ \A t \in Threads :
                   /\ (c \notin guards[t] /\ c \in guards'[t]) => AbsHolder(c) = {t}
                   /\ (pc[t] = "tw_none" /\ cur[t] = c /\ pc'[t] = "idle")
                         => ~AbsAvail(c)
                   /\ (seen'[t] # seen[t] /\ seen'[t] # << >> /\ seen'[t][1] = c)
                         => (AbsHolder(c) = {t} /\ seen'[t][2] = AbsVal(c)) ]_vars

\* A revoke has taken effect on a cell that was written through a guard
\* before (the flag is still set, the destructor has not started), while a
\* try_write on the same cell waits for the lock.
C13_Witness ==
    \E t \in Threads, u \in Threads :
        /\ pc[t] = "dip_clear"
        /\ pristine[cur[t]] = << >>
        /\ is_available[cur[t]]
        /\ pc[u] = "tw_lock" /\ cur[u] = cur[t]

\* =============================================================== C14
\* The teardown of cell c is complete.
TornDown(c) ==
    torn[c] /\ \A t \in Threads : (pc[t] # "idle" => cur[t] # c)

\* C14: teardown.  Over the whole life of a cell (any revokes, then the drop
\* of the cell) the destructor of the wrapped value runs at most once, and
\* exactly once when the teardown is complete: a value still live at
\* teardown is destroyed by it, a value already destroyed by revoke is not
\* destroyed again (no step of the teardown changes the count or the data).
C14_Teardown ==
    /\ [](\A c \in Cells :
            /\ destroyCount[c] <= 1
            /\ (TornDown(c) =>
                   /\ destroyCount[c] = 1
                   /\ data[c].st = "uninit"
                   /\ ~is_available[c]))
    /\ [][ \A c \in Cells :
             (torn[c] /\ revokeReturned[c]) =>
                 /\ destroyCount'[c] = destroyCount[c]
                 /\ data'[c] = data[c] ]_vars

\* A cell was revoked and then dropped: its teardown is complete.
C14_Witness ==
    \E c \in Cells : TornDown(c) /\ revokeReturned[c]

\* A cell was dropped while its value was live: the teardown runs the
\* destructor.
C14_WitnessLive ==
    \E t \in Threads :
        /\ pc[t] = "dip_dropping"
        /\ torn[cur[t]]
        /\ ~revokeReturned[cur[t]]

\* ===================================================================
\* bits::genmask.  A u32 is the set of the positions of its 1 bits, so
\* that each operation is computed bit by bit with its carry or borrow.
Positions == 0 .. (BitWidth - 1)

\* The literal 1 and the value !0u32.
One     == {0}
AllOnes == Positions

RECURSIVE SubFrom(_, _, _, _)
\* a - b from position i upwards with an incoming borrow; ovf is the
\* borrow out of the top bit, i.e. the subtraction went below zero.
SubFrom(a, b, i, borrow) ==
    IF i = BitWidth THEN [val |-> {}, ovf |-> borrow]
    ELSE LET ai   == IF i \in a THEN 1 ELSE 0
             bi   == (IF i \in b THEN 1 ELSE 0) + (IF borrow THEN 1 ELSE 0)
             bit  == (ai - bi) % 2
             rest == SubFrom(a, b, i + 1, ai < bi)
         IN  [val |-> (IF bit = 1 THEN {i} ELSE {}) \cup rest.val,
              ovf |-> rest.ovf]

RECURSIVE AddFrom(_, _, _, _)
\* a + b from position i upwards with an incoming carry; ovf is the
\* carry out of the top bit.
AddFrom(a, b, i, carry) ==
    IF i = BitWidth THEN [val |-> {}, ovf |-> carry]
    ELSE LET sum  == (IF i \in a THEN 1 ELSE 0) + (IF i \in b THEN 1 ELSE 0)
                     + (IF carry THEN 1 ELSE 0)
             rest == AddFrom(a, b, i + 1, sum >= 2)
         IN  [val |-> (IF sum % 2 = 1 THEN {i} ELSE {}) \cup rest.val,
              ovf |-> rest.ovf]

\* a << n and a >> n.  A shift by BitWidth or more overflows; a build that
\* does not trap it shifts by the amount modulo the width.
Shl(a, n) ==
    [val |-> {i + (n % BitWidth) : i \in a} \cap Positions,
     ovf |-> n >= BitWidth]

Shr(a, n) ==
    [val |-> {i - (n % BitWidth) : i \in a} \cap Positions,
     ovf |-> n >= BitWidth]

\* 32 - 1 - h as a shift amount.  It goes below zero when h > 31; the
\* wrapped u32 is then at least the width, and is stood for by the width
\* plus its value modulo the width.
ShiftAmount(h) ==
    [amt |-> IF h > BitWidth - 1
             THEN BitWidth + ((BitWidth - 1 - h) % BitWidth)
             ELSE BitWidth - 1 - h,
     ovf |-> h > BitWidth - 1]

\* ((!0u32) - (1 << l) + 1) & ((!0u32) >> (32 - 1 - h))
genmask_NoPlusOne(h, l) ==
    LET one  == Shl(One, l)
        low  == SubFrom(AllOnes, one.val, 0, FALSE)
        k    == ShiftAmount(h)
        high == Shr(AllOnes, k.amt)
    IN  [val |-> low.val \cap high.val,
         ovf |-> one.ovf \/ low.ovf \/ k.ovf \/ high.ovf]

genmask(h, l) ==
    LET one  == Shl(One, l)
        diff == SubFrom(AllOnes, one.val, 0, FALSE)
        low  == AddFrom(diff.val, One, 0, FALSE)
        k    == ShiftAmount(h)
        high == Shr(AllOnes, k.amt)
    IN  [val |-> low.val \cap high.val,
         ovf |-> one.ovf \/ diff.ovf \/ low.ovf \/ k.ovf \/ high.ovf]

\* A caller has chosen the arguments of one call.
InitBits ==
    /\ bits \in {[h |-> h, l |-> l, at |-> "call", out |-> {}, ovf |-> FALSE] :
                    h \in 0 .. MaxArg, l \in 0 .. MaxArg}
    /\ InitCells

\* The call runs to its return.
GenmaskReturn ==
    /\ bits.at = "call"
    /\ LET r == genmask(bits.h, bits.l)
       IN  bits' = [bits EXCEPT !.at = "ret", !.out = r.val, !.ovf = r.ovf]
    /\ UNCHANGED << is_available, data, lockOwner, guards, pc, cur, seen, torn >>
    /\ UNCHANGED histVars

NextBits == GenmaskReturn

SpecBits == InitBits /\ [][NextBits]_vars

GuardHolders(c) == {t \in Threads : c \in guards[t]}

\* Thread u is inside a call of try_write on cell c that has not returned.
InTryWrite(u, c) == pc[u] \in {"tw_lock", "tw_check", "tw_none"} /\ cur[u] = c

\* C16: exclusive access.  In every reachable state at most one thread holds
\* the lock of a cell, so at most one RevocableGuard of the cell is alive and
\* its holder is the lock's holder; a try_write of another thread that is
\* under way while a guard is alive is still waiting for the lock, and as
\* long as the guard is not dropped it stays there: it returns neither Some
\* (a guard) nor None.
C16_Exclusive ==
    /\ [](\A c \in Cells :
            /\ Cardinality(lockOwner[c]) <= 1
            /\ Cardinality(GuardHolders(c)) <= 1
            /\ GuardHolders(c) \subseteq lockOwner[c]
            /\ \A t \in GuardHolders(c) : \A u \in Threads \ {t} :
                   InTryWrite(u, c) => pc[u] = "tw_lock")
    /\ [][ \A c \in Cells : \A t \in GuardHolders(c) : \A u \in Threads \ {t} :
             (InTryWrite(u, c) /\ c \in guards'[t]) =>
                 /\ pc'[u] = "tw_lock"
                 /\ cur'[u] = c
                 /\ c \notin guards'[u] ]_vars

\* A try_write waits while another thread, which has written through its
\* guard, still holds it.
C16_Witness ==
    \E t, u \in Threads : \E c \in Cells :
        /\ t # u
        /\ c \in guards[t]
        /\ pristine[c] = << >>
        /\ InTryWrite(u, c)

\* ================================================================ C17
\* Thread t has called revoke or try_write on a cell of which it still holds
\* a RevocableGuard, and the call is at self.lock().
Reentered(t) == pc[t] \in {"rv_lock", "tw_lock"} /\ cur[t] \in guards[t]

\* C17: re-entrancy deadlocks.  A thread that calls revoke or try_write on a
\* cell while it holds a RevocableGuard of that cell never returns from the
\* call: it stays at self.lock() for ever, keeps its guard, and the value of
\* the cell stays live and is never destroyed.
C17_Reentrancy ==
    /\ [](\A t \in Threads : Reentered(t) =>
            /\ lockOwner[cur[t]] = {t}
            /\ Live(cur[t])
            /\ destroyCount[cur[t]] = 0)
    /\ [][ \A t \in Threads : Reentered(t) =>
             /\ Reentered(t)'
             /\ pc'[t] = pc[t]
             /\ cur'[t] = cur[t]
             /\ destroyCount'[cur[t]] = destroyCount[cur[t]] ]_vars

\* The deadlock: a thread waits in revoke for the lock it holds through its
\* own guard, and every other thread waits for the same lock.
C17_Witness ==
    \E t \in Threads :
        /\ pc[t] = "rv_lock"
        /\ cur[t] \in guards[t]
        /\ \A u \in Threads \ {t} :
               pc[u] \in {"rv_lock", "tw_lock"} /\ cur[u] = cur[t]
        /\ ~ ENABLED Next

\* ================================================================ C18
\* The step is a read of cell c through thread t's guard.
GuardReadStep(t, c) ==
    /\ c \in guards[t]
    /\ seen'[t] # seen[t]
    /\ seen'[t] # << >>
    /\ seen'[t][1] = c

\* Writes persist: what a guard reads is the value last stored into the
\* cell, what a try_write that returns a guard finds in the cell is that
\* value, initialised, and the value changes only through the guard of the
\* lock's holder or by its destruction.
PersistStep ==
    \A c \in Cells :
        /\ \A t \in Threads :
              /\ GuardReadStep(t, c) => seen'[t][2] = lastWritten[c]
              /\ (c \notin guards[t] /\ c \in guards'[t]) =>
                     data[c] = [st |-> "init", val |-> lastWritten[c]]
        /\ (data'[c].val # data[c].val /\ data'[c].st = "init") =>
               \E t \in Threads : c \in guards[t] /\ lockOwner[c] = {t}

\* The step ends the life of the value of cell c: T's destructor starts.
EndOfLife(c) == data[c].st = "init" /\ data'[c].st # "init"

\* The step is taken inside revoke, by the holder of the lock.
ByRevoke(c) ==
    \E t \in Threads :
        /\ pc[t] = "dip_drop" /\ cur[t] = c
        /\ ~torn[c]
        /\ lockOwner[c] = {t}

\* The step is taken inside Drop for Inner, while the cell is torn down.
ByTeardown(c) ==
    \E t \in Threads :
        /\ pc[t] = "dip_drop" /\ cur[t] = c
        /\ torn[c]
        /\ lockOwner[c] = {}

\* What is destroyed is the value last written, and it is destroyed once.
DestroysLastWritten(c) ==
    /\ data'[c].val = lastWritten[c]
    /\ destroyCount[c] = 0
    /\ destroyCount'[c] = 1

\* C18 as stated: writes through a guard persist, and revoke is the only
\* operation that ends the value's life, destroying the last written value.
C18_OnlyRevokeEndsLife ==
    [][ /\ PersistStep
        /\ \A c \in Cells :
              EndOfLife(c) => ByRevoke(c) /\ DestroysLastWritten(c) ]_vars

\* C18 (amended): writes through a guard persist: a value written through a
\* guard's mutable access is the value that the next successful try_write on
\* the cell, from any thread, finds and reads, as long as no other write
\* intervenes; revoke and the teardown of the cell (Drop for Inner) are the
\* only operations that end the value's life, and each destroys the last
\* written value.
C18_WritesPersist ==
    [][ /\ PersistStep
        /\ \A c \in Cells :
              EndOfLife(c) =>
                  /\ ByRevoke(c) \/ ByTeardown(c)
                  /\ DestroysLastWritten(c) ]_vars

\* A try_write has taken the lock of a cell whose value was written through
\* an earlier guard, since dropped, and is about to return a guard over it.
C18_Witness ==
    \E u \in Threads : \E c \in Cells :
        /\ pc[u] = "tw_check" /\ cur[u] = c
        /\ lockOwner[c] = {u}
        /\ ~GuardAlive(c)
        /\ pristine[c] = << >>
        /\ Live(c)
        /\ data[c].val = lastWritten[c]
====
